---- MODULE Spec2Model ----
(***************************************************************************)
(* Conversation orchestration engine of the restaurant AI service:         *)
(* ConversationService.chat / InternalConversationService.chat, the        *)
(* supervisor, the reservation, information and internal-assistant ReAct   *)
(* loops, the reservation tools and the conversation_logs persistence.     *)
(*                                                                         *)
(* One SQLAlchemy session serves a request.  `log` / `res` / `cust` are    *)
(* the committed tables conversation_logs / reservations / customers;      *)
(* `txLog` / `txRes` / `txCust`                                            *)
(* are what the request's open transaction sees (committed rows plus its   *)
(* own flushed, uncommitted rows).  commit copies the view into the        *)
(* committed tables, rollback resets the view to the committed tables.     *)
(***************************************************************************)
EXTENDS Integers, Sequences, FiniteSets, TLC

VARIABLES
    log,            \* committed conversation_logs rows, in created_at order
    txLog,          \* conversation_logs as seen by the request's transaction
    res,            \* committed reservations rows, in insertion order
    txRes,          \* reservations as seen by the request's transaction
    cust,           \* committed customers rows
    txCust,         \* customers as seen by the request's transaction
    turn,           \* number of turns started so far
    pc,             \* position of the running chat() call
    flow,           \* "public" (ConversationService) or "internal"
    req,            \* the arguments of the running chat() call
    session_id,     \* chat(): the resolved session id
    history,        \* chat(): the replayed history
    state_messages, \* AgentState["messages"]
    messages,       \* the node's local working list; the entries that earlier
                    \* passes of the for loop appended are left out
    node,           \* the specialist node that is running, "none" otherwise
    i,              \* completed iterations of the node's for loop
    calls,          \* completion calls made by the running node
    pending,        \* tool calls of the current response not yet dispatched
    tools_used,     \* the node's tools_used list
    next_agent,     \* AgentState["next_agent"]
    call_active,    \* AgentState["call_active"]
    last_llm,       \* the completion call made last: who was invoked and how,
                    \* for the router also what it answered
    dispatched,     \* how often each name was handed to tool dispatch in this
                    \* turn, counted up to Many
    failed,         \* chat(): the except branch around graph.ainvoke ran
    result,         \* the dict chat() returned, or NoResult
    workers         \* requests that run create_reservation side by side, each
                    \* on its own session: position, rows written, text returned

vars == <<log, txLog, res, txRes, cust, txCust, turn, pc, flow, req, session_id, history,
          state_messages, messages, node, i, calls, pending, tools_used,
          next_agent, call_active, last_llm, dispatched, failed, result, workers>>

dbVars == <<log, txLog, res, txRes, cust, txCust>>
loopVars == <<messages, node, i, calls, pending, tools_used, dispatched>>

----------------------------------------------------------------------------
(* Bounds of the model *)

MaxTurns == 2          \* turns submitted in one behaviour
MaxCalls == 2          \* tool calls carried by one completion response
MaxRows == 3           \* rows of the reservations table (tool invocations)
MaxLog == 52           \* rows of one session in conversation_logs (replay)
Many == 2              \* dispatches of one name are counted 0, 1, ..., Many or more

(* Program constants *)

ReservationMaxIterations == 5
InfoMaxIterations == 3
AssistantMaxIterations == 6
PublicHistoryLimit == 50
InternalHistoryLimit == 30
DefaultDuration == 90

----------------------------------------------------------------------------
(* Fixed texts of the code *)

GOODBYE == "Thank you for calling! Have a wonderful day. Goodbye!"
GREETING == "Hello! Thank you for calling. How can I help you today?"
NO_AI_MESSAGE == "I'm sorry, I didn't quite catch that. Could you say that again?"
APOLOGY == "I apologize, I'm having a technical difficulty. Could you repeat that?"
INTERNAL_APOLOGY == "I'm sorry, I encountered an error processing your request. Please try again."
INTERNAL_NO_RESPONSE == "I couldn't generate a response. Please try again."

(* Texts produced in turn n: the caller's message, the router's message,   *)
(* a specialist completion's text.  The empty string is the empty text.    *)
UserText(n) == "user-" \o ToString(n)
RouterText(n) == "router-" \o ToString(n)
AnswerText(n) == "answer-" \o ToString(n)

----------------------------------------------------------------------------
(* Tenants and their tables *)

Companies == {"c1", "c2"}

(* tables rows: c1 owns a table for two and a table for four, c2 none *)
Tables == << [id |-> "t1", company |-> "c1", capacity_max |-> 2],
             [id |-> "t2", company |-> "c1", capacity_max |-> 4] >>

ActiveStatuses == {"pending", "confirmed", "checked_in", "seated"}

----------------------------------------------------------------------------
(* Sequence helpers *)

Min(a, b) == IF a < b THEN a ELSE b

Take(s, n) == SubSeq(s, 1, Min(n, Len(s)))

Range(s) == {s[k] : k \in DOMAIN s}

(* counts per name, a function on the names counted so far *)
TimesIn(count, name) == IF name \in DOMAIN count THEN count[name] ELSE 0

Counted(count, name) ==
    [n \in DOMAIN count \cup {name} |->
        IF n = name THEN Min(TimesIn(count, name) + 1, Many) ELSE count[n]]

----------------------------------------------------------------------------
(* Session store: conversation_logs *)

LogRow(sid, cid, role, content) ==
    [session_id |-> sid, company_id |-> cid, role |-> role, content |-> content]

(* LangChain messages.  tool_calls holds the call ids an assistant message *)
(* requests, tool_call_id the id a tool message answers.                   *)
Message(role, content) ==
    [role |-> role, content |-> content, tool_calls |-> <<>>, tool_call_id |-> 0]

ToolCallMessage(content, ids) ==
    [role |-> "ai", content |-> content, tool_calls |-> ids, tool_call_id |-> 0]

ToolMessage(content, id) ==
    [role |-> "tool", content |-> content, tool_calls |-> <<>>, tool_call_id |-> id]

(* uuid4: an id no earlier turn was given *)
NewSessionId(fl, n) ==
    (IF fl = "public" THEN "session-" ELSE "internal-") \o ToString(n)

(* a resolution that never finds the session *)
always_new_session(view, fl, sid, n) == NewSessionId(fl, n)

(* get_or_create_session: the SELECT looks at session_id alone *)
get_or_create_session(view, fl, sid, n) ==
    IF sid # "" /\ \E k \in DOMAIN view : view[k].session_id = sid
    THEN sid
    ELSE NewSessionId(fl, n)

RowToMessage(row) ==
    IF row.role = "user" THEN Message("human", row.content)
    ELSE Message("ai", row.content)

RowsToMessages(rows) == [k \in DOMAIN rows |-> RowToMessage(rows[k])]

IsReplayRole(row) == row.role \in {"user", "assistant"}

(* ConversationService.get_conversation_history: ORDER BY created_at ASC   *)
(* LIMIT :limit, then the role filter in Python                            *)
PublicHistory(view, sid, cid, limit) ==
    LET Mine(row) == row.session_id = sid /\ row.company_id = cid
        rows == Take(SelectSeq(view, Mine), limit)
    IN  RowsToMessages(SelectSeq(rows, IsReplayRole))

(* InternalConversationService.get_conversation_history: the role filter   *)
(* is part of the WHERE clause, then ORDER BY created_at ASC LIMIT :limit  *)
InternalHistory(view, sid, cid, limit) ==
    LET Mine(row) == /\ row.session_id = sid /\ row.company_id = cid
                     /\ IsReplayRole(row)
    IN  RowsToMessages(Take(SelectSeq(view, Mine), limit))

get_conversation_history(view, fl, sid, cid) ==
    IF fl = "public" THEN PublicHistory(view, sid, cid, PublicHistoryLimit)
    ELSE InternalHistory(view, sid, cid, InternalHistoryLimit)

----------------------------------------------------------------------------
(* Reservation tools (agents/tools/reservation_tools.py)                   *)

ReservationRow(cid, table, d, start, num) ==
    [company_id |-> cid, table_id |-> table, date |-> d, start_time |-> start,
     duration_minutes |-> DefaultDuration, status |-> "confirmed",
     reservation_number |-> num]

(* `c.duration_minutes or 90` *)
DurationOf(row) ==
    IF row.duration_minutes = 0 THEN DefaultDuration ELSE row.duration_minutes

(* a test that also refuses windows that only touch *)
WindowsTouch(ex_s, ex_e, new_start, new_end) ==
    ex_s <= new_end /\ new_start <= ex_e

(* ex_s < new_end and new_start < ex_e, on datetimes of the target date *)
WindowsOverlap(ex_s, ex_e, new_start, new_end) ==
    ex_s < new_end /\ new_start < ex_e

has_conflict(view, cid, table, d, start) ==
    \E k \in DOMAIN view :
        /\ view[k].company_id = cid
        /\ view[k].table_id = table
        /\ view[k].date = d
        /\ view[k].status \in ActiveStatuses
        /\ WindowsOverlap(view[k].start_time,
                          view[k].start_time + DurationOf(view[k]),
                          start, start + DefaultDuration)

(* tables of the company that seat the party, ORDER BY capacity_max ASC *)
EligibleTables(cid, party) ==
    LET Fits(t) == t.company = cid /\ t.capacity_max >= party
    IN  SelectSeq(Tables, Fits)

(* the first eligible table without a conflict, "" when there is none *)
chosen_table(view, cid, d, start, party) ==
    LET ts == EligibleTables(cid, party)
        free == {k \in DOMAIN ts : ~has_conflict(view, cid, ts[k].id, d, start)}
    IN  IF free = {} THEN ""
        ELSE ts[CHOOSE k \in free : \A m \in free : k <= m].id

CompanyCount(view, cid) ==
    Cardinality({k \in DOMAIN view : view[k].company_id = cid})

(* Outcome of one tool invocation on the transaction's view of the         *)
(* reservations: the view afterwards, what happened to the transaction     *)
(* ("commit", "rollback" or "none") and the text handed back.              *)
ToolOutcome(view, tx, text) ==
    [view |-> view, customers |-> txCust, tx |-> tx, text |-> text]

(* customers rows *)
CustomerRow(cid, phone) == [company_id |-> cid, phone |-> phone]

TXT_CONFIRMED == "Reservation confirmed!"
TXT_NO_TABLE == "I'm sorry, but there are no available tables for that time."
TXT_CREATE_FAILED == "I'm sorry, something went wrong while creating your reservation."
TXT_CANCELLED == "Reservation has been cancelled."
TXT_NOT_FOUND == "I couldn't find reservation."
TXT_ALREADY == "Reservation is already cancelled."
TXT_CANCEL_FAILED == "I'm sorry, something went wrong while cancelling."
TXT_AVAILABILITY == "availability report"
TXT_AVAILABILITY_FAILED == "I'm having trouble checking availability right now."
TXT_LOOKUP == "lookup report"
TXT_LOOKUP_FAILED == "I'm having trouble searching our information right now."

(* create_reservation.  fault = "none": every statement succeeds;          *)
(* otherwise the statement that raises: "parse" strptime, "lookup" the     *)
(* tables query, "customer" the INSERT INTO customers, "number" the COUNT  *)
(* query, "insert" the INSERT INTO reservations, "commit" db.commit().     *)
(* Every fault ends in the except branch: _safe_rollback and the error     *)
(* text; the outcome holds what the transaction saw when it was raised.    *)
create_reservation(view, committed, cid, args, fault) ==
    LET table == chosen_table(view, cid, args.date, args.time, args.party)
        num == CompanyCount(view, cid) + 1
        row == ReservationRow(cid, table, args.date, args.time, num)
        known == txCust \cup {CustomerRow(cid, args.phone)}
        Raised(v, c) ==
            [ToolOutcome(v, "rollback", TXT_CREATE_FAILED) EXCEPT !.customers = c]
    IN  IF fault \in {"parse", "lookup"} THEN Raised(view, txCust)
        ELSE IF table = "" THEN ToolOutcome(view, "none", TXT_NO_TABLE)
        ELSE IF fault = "customer" THEN Raised(view, txCust)
        ELSE IF fault \in {"number", "insert"} THEN Raised(view, known)
        ELSE IF fault = "commit" THEN Raised(Append(view, row), known)
        ELSE [ToolOutcome(Append(view, row), "commit", TXT_CONFIRMED)
                 EXCEPT !.customers = known]

(* cancel_reservation: SELECT ... WHERE reservation_number = :n LIMIT 1 *)
cancel_reservation(view, committed, cid, args, fault) ==
    LET hits == {k \in DOMAIN view : /\ view[k].company_id = cid
                                     /\ view[k].reservation_number = args.number}
        k == CHOOSE x \in hits : \A y \in hits : x <= y
    IN  IF fault # "none" THEN ToolOutcome(committed, "rollback", TXT_CANCEL_FAILED)
        ELSE IF hits = {} THEN ToolOutcome(view, "none", TXT_NOT_FOUND)
        ELSE IF view[k].status \in {"cancelled", "completed", "no_show"}
             THEN ToolOutcome(view, "none", TXT_ALREADY)
        ELSE ToolOutcome([view EXCEPT ![k].status = "cancelled"], "commit",
                         TXT_CANCELLED)

(* check_availability, find_reservation, get_upcoming_reservations: they   *)
(* read only; the except branch rolls back                                 *)
check_availability(view, committed, cid, args, fault) ==
    IF fault # "none" THEN ToolOutcome(committed, "rollback", TXT_AVAILABILITY_FAILED)
    ELSE ToolOutcome(view, "none", TXT_AVAILABILITY)

(* the information tools and the internal tools: read only, their except   *)
(* branch returns a text and leaves the transaction alone                  *)
read_only_tool(view, committed, cid, args, fault) ==
    IF fault # "none" THEN ToolOutcome(view, "none", TXT_LOOKUP_FAILED)
    ELSE ToolOutcome(view, "none", TXT_LOOKUP)

----------------------------------------------------------------------------
(* Tool registry and what the completion backend may request *)

ReservationToolNames == {"check_availability", "create_reservation",
                         "find_reservation", "cancel_reservation",
                         "get_upcoming_reservations"}
InfoToolNames == {"search_knowledge", "search_menu"}

(* build_agent_graph: all_tools = {t.name: t for t in reservation_tools + info_tools} *)
all_tools == ReservationToolNames \cup InfoToolNames

(* build_internal_agent_graph: tool_map, the read-only internal tools *)
tool_map == {"get_low_stock_items", "get_inventory_summary", "search_inventory_item",
             "get_recent_stock_movements", "get_todays_shifts", "list_staff_members",
             "get_staff_summary", "get_todays_reservations", "get_reservation_stats",
             "get_upcoming_reservations", "get_reservations_by_date",
             "get_table_status", "get_table_occupancy_summary",
             "get_popular_menu_items", "get_customer_stats", "search_customer",
             "get_daily_overview"}

(* one registry for both flows *)
RegistryShared(fl) == all_tools \cup tool_map

Registry(fl) == IF fl = "public" THEN all_tools ELSE tool_map

UNKNOWN_TOOL == "no_such_tool"

(* the phone number of the caller who books for a party of this size *)
CallerPhone(party) == "phone-" \o ToString(party)

NoArgs == [date |-> 0, time |-> 0, party |-> 0, number |-> 0, phone |-> ""]

Args(d, t, p, n) ==
    [date |-> d, time |-> t, party |-> p, number |-> n, phone |-> CallerPhone(p)]

Request(name, args) == [name |-> name, args |-> args]

(* the tool calls a completion bound to the node's tools may carry: a      *)
(* booking for two at 19:00 on day 1, or a name the registry lacks; for    *)
(* the internal assistant that name is the public flow's booking tool      *)
Requests(nd) ==
    IF nd = "reservation"
    THEN {Request("create_reservation", Args(1, 1140, 2, 0)),
          Request(UNKNOWN_TOOL, NoArgs)}
    ELSE IF nd = "information"
    THEN {Request("search_menu", NoArgs), Request(UNKNOWN_TOOL, NoArgs)}
    ELSE {Request("get_todays_reservations", NoArgs),
          Request("create_reservation", Args(1, 1140, 2, 0))}

(* responses carrying 1..most tool calls *)
RequestLists(nd, most) ==
    UNION {[1..n -> Requests(nd)] : n \in 1..most}

Faults == {"none", "parse", "lookup", "customer", "number", "insert", "commit"}

(* the body of the tool registered under `name` *)
InvokeTool(fl, name, view, committed, cid, args, fault) ==
    IF fl = "internal" /\ name \in tool_map
    THEN read_only_tool(view, committed, cid, args, fault)
    ELSE IF name = "create_reservation"
    THEN create_reservation(view, committed, cid, args, fault)
    ELSE IF name = "cancel_reservation"
    THEN cancel_reservation(view, committed, cid, args, fault)
    ELSE IF name \in ReservationToolNames
    THEN check_availability(view, committed, cid, args, fault)
    ELSE read_only_tool(view, committed, cid, args, fault)

(* a loop that runs one pass more than the node's max_iterations *)
max_iterations_plus_one(nd) ==
    IF nd = "reservation" THEN ReservationMaxIterations + 1
    ELSE IF nd = "information" THEN InfoMaxIterations + 1
    ELSE AssistantMaxIterations + 1

max_iterations(nd) ==
    IF nd = "reservation" THEN ReservationMaxIterations
    ELSE IF nd = "information" THEN InfoMaxIterations
    ELSE AssistantMaxIterations

----------------------------------------------------------------------------
(* State of a chat() call *)

NoResult == [status |-> "none", response |-> "", session_id |-> "",
             tools_used |-> <<>>, call_active |-> TRUE]

NoRequest == [company_id |-> "", message |-> "", session_id |-> "", confirms |-> FALSE]

NoLlm == [who |-> "none", tools |-> FALSE]

(* the state of the service with the committed tables given, and with the *)
(* invocations that wait to be made on their own, outside a turn, and the *)
(* requests that run side by side                                         *)
IdleWith(rows, bookings, waiting, running) ==
    /\ log = rows /\ txLog = rows
    /\ res = bookings /\ txRes = bookings
    /\ cust = {} /\ txCust = {}
    /\ turn = 0
    /\ pc = "idle"
    /\ flow = "public"
    /\ req = NoRequest
    /\ session_id = ""
    /\ history = <<>>
    /\ state_messages = <<>>
    /\ messages = <<>>
    /\ node = "none"
    /\ i = 0
    /\ calls = 0
    /\ pending = waiting
    /\ tools_used = <<>>
    /\ next_agent = "supervisor"
    /\ call_active = TRUE
    /\ last_llm = NoLlm
    /\ dispatched = <<>>
    /\ failed = FALSE
    /\ result = NoResult
    /\ workers = running

Idle(rows, bookings) == IdleWith(rows, bookings, <<>>, <<>>)

(* a fresh deployment: both tables empty *)
Init == Idle(<<>>, <<>>)

(* one earlier public turn of tenant c1, in which the caller gave the      *)
(* details of a booking and was asked to confirm them                      *)
EarlierTurn ==
    << LogRow("session-0", "c1", "user", UserText(0)),
       LogRow("session-0", "c1", "assistant", AnswerText(0)) >>

(* a deployment that has served nothing yet, or that one earlier turn *)
InitTurn == \E rows \in {<<>>, EarlierTurn} : Idle(rows, <<>>)

(* session ids a caller can send: none, one that is in the log, or the one *)
(* the previous turn returned (which has no row when nothing was persisted)*)
SessionIdInputs ==
    {""} \cup {log[k].session_id : k \in DOMAIN log} \cup {result.session_id}

----------------------------------------------------------------------------
(* Transaction of the request's AsyncSession *)

(* db.commit(): the flushed rows become durable *)
Commit(newLog, newRes, newCust) ==
    /\ txLog' = newLog /\ log' = newLog
    /\ txRes' = newRes /\ res' = newRes
    /\ txCust' = newCust /\ cust' = newCust

(* a rollback that empties conversation_logs *)
RollbackDropsLog ==
    /\ txLog' = <<>> /\ log' = <<>>
    /\ txRes' = res /\ txCust' = cust
    /\ UNCHANGED <<res, cust>>

(* a rollback that would also take back the reservations already committed *)
RollbackCommitted ==
    /\ txLog' = log /\ txRes' = <<>> /\ res' = <<>>
    /\ txCust' = cust
    /\ UNCHANGED <<log, cust>>

(* db.rollback(): the flushed, uncommitted rows are discarded *)
Rollback ==
    /\ txLog' = log /\ txRes' = res /\ txCust' = cust
    /\ UNCHANGED <<log, res, cust>>

(* a tool whose failed writes stay pending in the session *)
SettleKeepsPending(out) ==
    IF out.tx = "commit" THEN Commit(txLog, out.view, out.customers)
    ELSE IF out.tx = "rollback"
    THEN /\ txRes' = out.view /\ txCust' = out.customers
         /\ UNCHANGED <<log, txLog, res, cust>>
    ELSE UNCHANGED dbVars

(* what a tool invocation did to the transaction *)
Settle(out) ==
    IF out.tx = "commit" THEN Commit(txLog, out.view, out.customers)
    ELSE IF out.tx = "rollback" THEN Rollback
    ELSE UNCHANGED dbVars

(* the locals of a finished chat() call are gone *)
ResetLocals ==
    /\ history' = <<>>
    /\ state_messages' = <<>>
    /\ messages' = <<>>
    /\ node' = "none"
    /\ i' = 0
    /\ calls' = 0
    /\ pending' = <<>>
    /\ tools_used' = <<>>
    /\ next_agent' = "supervisor"
    /\ last_llm' = NoLlm
    /\ dispatched' = <<>>

(* an exception leaves chat(): get_db rolls the session back and re-raises *)
Propagate(sid) ==
    /\ Rollback
    /\ result' = [NoResult EXCEPT !.status = "raised", !.session_id = sid]
    /\ pc' = "idle"
    /\ ResetLocals

----------------------------------------------------------------------------
(* chat(), steps 1-3: resolve the session, load the history, save the      *)
(* user message (db.add + flush, not committed)                            *)
StartTurn(fl, cid, sid, confirms, flushed) ==
    LET n == turn + 1
        resolved == get_or_create_session(txLog, fl, sid, n)
        replay == get_conversation_history(txLog, fl, resolved, cid)
    IN  /\ pc = "idle"
        /\ confirms => (fl = "public" /\ replay # <<>>)
        /\ turn' = n
        /\ UNCHANGED workers
        /\ flow' = fl
        /\ req' = [company_id |-> cid, message |-> UserText(n), session_id |-> sid,
                   confirms |-> confirms]
        /\ session_id' = resolved
        /\ failed' = FALSE
        /\ call_active' = TRUE
        /\ IF flushed
           THEN /\ txLog' = Append(txLog, LogRow(resolved, cid, "user", UserText(n)))
                /\ UNCHANGED <<log, res, txRes, cust, txCust>>
                /\ history' = replay
                /\ pc' = "build"
                /\ result' = NoResult
                /\ UNCHANGED <<state_messages, loopVars, next_agent, last_llm>>
           ELSE Propagate(resolved)

(* chat(), step 4: build_agent_graph / build_internal_agent_graph and the  *)
(* initial state.  The call stands before the try block.                   *)
BuildGraph(built) ==
    /\ pc = "build"
    /\ IF built
       THEN /\ state_messages' = Append(history, Message("human", req.message))
            /\ next_agent' = "supervisor"
            /\ tools_used' = <<>>
            /\ pc' = IF flow = "public" THEN "supervisor" ELSE "enter"
            /\ node' = IF flow = "public" THEN "none" ELSE "assistant"
            /\ UNCHANGED <<dbVars, history, messages, i, calls, pending, last_llm,
                           dispatched, result>>
       ELSE Propagate(session_id)
    /\ UNCHANGED <<turn, workers, flow, req, session_id, call_active, failed>>

----------------------------------------------------------------------------
(* Router: supervisor_node and the conditional edge route_supervisor *)

RouteValues == {"self", "reservation", "information", "farewell", "transfer", "absent"}

(* what supervisor_llm may answer in turn n.  kind "structured": a         *)
(* route_call tool call; "json": content holding a JSON object that        *)
(* json.loads accepts; "badjson": content holding braces json.loads        *)
(* rejects; "text": content without braces; "empty": nothing.  A field     *)
(* the object lacks is "absent".                                           *)
SupervisorResponses(n) ==
    [kind : {"structured", "json"}, route : RouteValues,
     message : {"", RouterText(n), "absent"}, content : {RouterText(n)}]
    \cup [kind : {"badjson", "text"}, route : {"absent"}, message : {"absent"},
          content : {RouterText(n)}]
    \cup [kind : {"empty"}, route : {"absent"}, message : {"absent"}, content : {""}]

Get(field, default) == IF field = "absent" THEN default ELSE field

(* a decode that keeps nothing of a text it cannot decode *)
decode_drops_text(response) ==
    IF response.kind \in {"structured", "json"}
    THEN [route |-> Get(response.route, "self"),
          message |-> Get(response.message,
                          IF response.kind = "json" THEN response.content ELSE "")]
    ELSE [route |-> "self", message |-> ""]

(* lines 100-122: the three-stage decode *)
supervisor_decode(response) ==
    IF response.kind = "structured"
    THEN [route |-> Get(response.route, "self"), message |-> Get(response.message, "")]
    ELSE IF response.content # ""
    THEN IF response.kind = "json"
         THEN [route |-> Get(response.route, "self"),
               message |-> Get(response.message, response.content)]
         ELSE [route |-> "self", message |-> response.content]
    ELSE [route |-> "self", message |-> ""]

(* a reply that keeps an empty message *)
OrNothing(text, default) == text

Or(text, default) == IF text = "" THEN default ELSE text

(* an edge that sends every decision but the end to the reservation loop *)
route_to_reservation(agent) ==
    IF agent = "__end__" THEN "__end__" ELSE "reservation"

(* an edge that crosses the two specialists *)
route_crossed(agent) ==
    IF agent = "reservation" THEN "information"
    ELSE IF agent = "information" THEN "reservation"
    ELSE "__end__"

route_supervisor(agent) ==
    IF agent = "reservation" THEN "reservation"
    ELSE IF agent = "information" THEN "information"
    ELSE "__end__"

Supervisor(response) ==
    LET d == supervisor_decode(response)
        agent == IF d.route \in {"reservation", "information", "farewell"}
                 THEN d.route ELSE "__end__"
        edge == route_supervisor(agent)
    IN  /\ pc = "supervisor"
        /\ last_llm' = [who |-> "supervisor", tools |-> TRUE, response |-> response]
        /\ next_agent' = agent
        /\ state_messages' =
              IF d.route \in {"reservation", "information"} THEN state_messages
              ELSE IF d.route = "farewell"
              THEN Append(state_messages, Message("ai", Or(d.message, GOODBYE)))
              ELSE Append(state_messages, Message("ai", Or(d.message, GREETING)))
        /\ call_active' = IF d.route = "farewell" THEN FALSE ELSE call_active
        /\ node' = IF edge = "__end__" THEN "none" ELSE edge
        /\ pc' = IF edge = "__end__" THEN "extract" ELSE "enter"
        /\ UNCHANGED <<dbVars, turn, workers, flow, req, session_id, history, messages, i,
                       calls, pending, tools_used, dispatched, failed, result>>

----------------------------------------------------------------------------
(* Specialist loops: reservation_node, info_node, assistant_node *)

(* the working list as the node builds it before the loop *)
Entry == <<Message("system", node)>> \o state_messages

(* the lines before the for loop: the system prompt and the state's        *)
(* messages, tools_used copied from the state                              *)
EnterNode ==
    /\ pc = "enter"
    /\ messages' = Entry
    /\ i' = 0
    /\ calls' = 0
    /\ pending' = <<>>
    /\ pc' = "llm"
    /\ UNCHANGED <<dbVars, turn, workers, flow, req, session_id, history, state_messages,
                   node, tools_used, next_agent, call_active, last_llm, dispatched,
                   failed, result>>

(* a specialist with an edge back to the supervisor *)
NodeReturnsToRouter(response) ==
    /\ state_messages' = Append(state_messages, response)
    /\ next_agent' = "supervisor"
    /\ pc' = "supervisor"

(* the node returns {"messages": [response], ...}: add_messages appends *)
NodeReturns(response) ==
    /\ state_messages' = Append(state_messages, response)
    /\ next_agent' = IF flow = "public" THEN "__end__" ELSE next_agent
    /\ pc' = "extract"

(* the ids of the calls of one response: fresh ones, here the pass of the  *)
(* loop and the position in the response                                   *)
CallIds(requests) ==
    [k \in DOMAIN requests |-> i * MaxCalls + k]

(* ids handed out against the order of the requests *)
WithIdsReversed(requests) ==
    [k \in DOMAIN requests |->
        [name |-> requests[k].name, args |-> requests[k].args,
         id |-> CallIds(requests)[Len(requests) - k + 1]]]

WithIds(requests) ==
    [k \in DOMAIN requests |->
        [name |-> requests[k].name, args |-> requests[k].args,
         id |-> CallIds(requests)[k]]]

(* one pass of the for loop up to the tool calls: the completion bound to  *)
(* the node's tools answers with a text                                    *)
LoopAnswer(content) ==
    /\ pc = "llm"
    /\ i < max_iterations(node)
    /\ calls' = calls + 1
    /\ last_llm' = [who |-> node, tools |-> TRUE]
    /\ NodeReturns(Message("ai", content))
    /\ UNCHANGED <<dbVars, turn, workers, flow, req, session_id, history, messages, node, i,
                   pending, tools_used, call_active, dispatched, failed, result>>

(* ... or with tool calls: messages.append(response) *)
LoopToolCalls(requests) ==
    /\ pc = "llm"
    /\ i < max_iterations(node)
    /\ calls' = calls + 1
    /\ last_llm' = [who |-> node, tools |-> TRUE]
    /\ messages' = Append(Entry, ToolCallMessage("", CallIds(requests)))
    /\ pending' = WithIds(requests)
    /\ pc' = "dispatch"
    /\ UNCHANGED <<dbVars, turn, workers, flow, req, session_id, history, state_messages,
                   node, i, tools_used, next_agent, call_active, dispatched, failed,
                   result>>

(* a dispatch that gives up the loop's passes when the tool did not run *)
DispatchEndsLoop(fault, raises) ==
    LET call == Head(pending)
        known == call.name \in Registry(flow)
        out == InvokeTool(flow, call.name, txRes, res, req.company_id, call.args, fault)
        text == IF ~known THEN "Unknown tool"
                ELSE IF raises THEN "Error executing"
                ELSE out.text
        ran == known /\ ~raises
        rest == IF ran THEN Tail(pending) ELSE <<>>
    IN  /\ pc = "dispatch"
        /\ pending # <<>>
        /\ dispatched' = Counted(dispatched, call.name)
        /\ IF ran THEN Settle(out) ELSE UNCHANGED dbVars
        /\ tools_used' = IF ran THEN Append(tools_used, call.name) ELSE tools_used
        /\ messages' = Append(messages, ToolMessage(text, call.id))
        /\ pending' = rest
        /\ i' = IF ~ran THEN max_iterations(node)
                ELSE IF rest = <<>> THEN i + 1 ELSE i
        /\ pc' = IF rest = <<>> THEN "llm" ELSE "dispatch"
        /\ UNCHANGED <<turn, workers, flow, req, session_id, history, state_messages, node,
                       calls, next_agent, call_active, last_llm, failed, result>>

(* the body of `for tool_call in response.tool_calls`, one call.  raises:  *)
(* tool_fn.ainvoke raises (the arguments do not fit the tool's schema)     *)
Dispatch(fault, raises) ==
    LET call == Head(pending)
        known == call.name \in Registry(flow)
        out == InvokeTool(flow, call.name, txRes, res, req.company_id, call.args, fault)
        text == IF ~known THEN "Unknown tool"
                ELSE IF raises THEN "Error executing"
                ELSE out.text
        ran == known /\ ~raises
    IN  /\ pc = "dispatch"
        /\ pending # <<>>
        /\ dispatched' = Counted(dispatched, call.name)
        /\ IF ran THEN Settle(out) ELSE UNCHANGED dbVars
        /\ tools_used' = IF ran THEN Append(tools_used, call.name) ELSE tools_used
        /\ messages' = Append(messages, ToolMessage(text, call.id))
        /\ pending' = Tail(pending)
        /\ i' = IF Tail(pending) = <<>> THEN i + 1 ELSE i
        /\ pc' = IF Tail(pending) = <<>> THEN "llm" ELSE "dispatch"
        /\ UNCHANGED <<turn, workers, flow, req, session_id, history, state_messages, node,
                       calls, next_agent, call_active, last_llm, failed, result>>

(* a last call that keeps the tools bound *)
FinalCallWithTools(content) ==
    /\ pc = "llm"
    /\ i = max_iterations(node)
    /\ calls' = calls + 1
    /\ last_llm' = [who |-> node, tools |-> TRUE]
    /\ NodeReturns(Message("ai", content))
    /\ UNCHANGED <<dbVars, turn, workers, flow, req, session_id, history, messages, node, i,
                   pending, tools_used, call_active, dispatched, failed, result>>

(* after the loop: the completion without tools, whose answer is returned *)
FinalCall(content) ==
    /\ pc = "llm"
    /\ i = max_iterations(node)
    /\ calls' = calls + 1
    /\ last_llm' = [who |-> node, tools |-> FALSE]
    /\ NodeReturns(Message("ai", content))
    /\ UNCHANGED <<dbVars, turn, workers, flow, req, session_id, history, messages, node, i,
                   pending, tools_used, call_active, dispatched, failed, result>>

----------------------------------------------------------------------------
(* chat(), steps 5-7 *)

AiMessages(msgs) == LET IsAi(m) == m.role = "ai" IN SelectSeq(msgs, IsAi)

Last(s) == s[Len(s)]

(* ConversationService.chat: the content of the last AIMessage *)
PublicReply(msgs) ==
    IF AiMessages(msgs) # <<>> THEN Last(AiMessages(msgs)).content
    ELSE NO_AI_MESSAGE

(* InternalConversationService.chat: the last AIMessage with content *)
InternalReply(msgs) ==
    LET IsSpoken(m) == m.role = "ai" /\ m.content # ""
        spoken == SelectSeq(msgs, IsSpoken)
    IN  IF spoken # <<>> THEN Last(spoken).content ELSE INTERNAL_NO_RESPONSE

(* a result that reports the node's list whatever the caller passes *)
PendingWithLoopTools(text, used, active) ==
    [status |-> "pending", response |-> text, session_id |-> session_id,
     tools_used |-> tools_used, call_active |-> active]

Pending(text, used, active) ==
    [status |-> "pending", response |-> text, session_id |-> session_id,
     tools_used |-> used, call_active |-> active]

(* graph.ainvoke returned, public flow: lines 139-147 *)
Extract ==
    /\ pc = "extract"
    /\ flow = "public"
    /\ result' = Pending(PublicReply(state_messages), tools_used, call_active)
    /\ pc' = "persist"
    /\ UNCHANGED <<dbVars, turn, workers, flow, req, session_id, history, state_messages,
                   loopVars, next_agent, call_active, last_llm, failed>>

(* graph.ainvoke returned, internal flow: db.commit() inside the try, then *)
(* the reply is picked; a failing commit takes the except branch           *)
InternalExtract(committed) ==
    /\ pc = "extract"
    /\ flow = "internal"
    /\ IF committed
       THEN /\ Commit(txLog, txRes, txCust)
            /\ result' = Pending(InternalReply(state_messages), tools_used, TRUE)
            /\ pc' = "persist"
            /\ failed' = FALSE
            /\ UNCHANGED <<history, state_messages, loopVars, next_agent, last_llm>>
       ELSE /\ Rollback
            /\ result' = [Pending(INTERNAL_APOLOGY, <<>>, TRUE) EXCEPT
                             !.status = "returned"]
            /\ pc' = "idle"
            /\ failed' = TRUE
            /\ ResetLocals
    /\ UNCHANGED <<turn, workers, flow, req, session_id, call_active>>

(* a completion call raises inside graph.ainvoke: the except branch of     *)
(* chat().  Public: apology, rollback, then the reply is still persisted.  *)
(* Internal: rollback and the apology is returned at once.                 *)
GraphRaises ==
    /\ pc \in {"supervisor", "llm"}
    /\ failed' = TRUE
    /\ Rollback
    /\ IF flow = "public"
       THEN /\ result' = Pending(APOLOGY, <<>>, TRUE)
            /\ pc' = "persist"
            /\ calls' = IF pc = "llm" THEN calls + 1 ELSE calls
            /\ UNCHANGED <<history, state_messages, messages, node, i, pending,
                           tools_used, next_agent, last_llm, dispatched>>
       ELSE /\ result' = [Pending(INTERNAL_APOLOGY, <<>>, TRUE) EXCEPT
                             !.status = "returned"]
            /\ pc' = "idle"
            /\ ResetLocals
    /\ UNCHANGED <<turn, workers, flow, req, session_id, call_active>>

(* step 6: save the assistant message and commit; a failure is rolled back *)
(* and swallowed.  Step 7: return.                                         *)
Persist(saved) ==
    /\ pc = "persist"
    /\ IF saved
       THEN Commit(Append(txLog, LogRow(session_id, req.company_id, "assistant",
                                        result.response)), txRes, txCust)
       ELSE Rollback
    /\ result' = [result EXCEPT !.status = "returned"]
    /\ pc' = "idle"
    /\ ResetLocals
    /\ UNCHANGED <<turn, workers, flow, req, session_id, call_active, failed>>

----------------------------------------------------------------------------

Flows == {"public", "internal"}

(* the steps of chat() calls: at most `turns` turns submitted by the       *)
(* tenants `cids`, each completion response carrying at most `most` tool   *)
(* calls; `conf`: whether a turn's message may be the caller's             *)
(* confirmation of a booking                                               *)
Step(turns, most, cids, conf) ==
    \/ /\ turn < turns
       /\ \E fl \in Flows, cid \in cids, sid \in SessionIdInputs,
             confirms \in conf, flushed \in BOOLEAN :
             StartTurn(fl, cid, sid, confirms, flushed)
    \/ \E built \in BOOLEAN : BuildGraph(built)
    \/ \E response \in SupervisorResponses(turn) : Supervisor(response)
    \/ EnterNode
    \/ \E content \in {"", AnswerText(turn)} : LoopAnswer(content)
    \/ \E requests \in RequestLists(node, most) : LoopToolCalls(requests)
    \/ \E fault \in Faults, raises \in BOOLEAN : Dispatch(fault, raises)
    \/ \E content \in {"", AnswerText(turn)} : FinalCall(content)
    \/ Extract
    \/ \E committed \in BOOLEAN : InternalExtract(committed)
    \/ GraphRaises
    \/ \E saved \in BOOLEAN : Persist(saved)

(* Sessions: several turns of two tenants, one tool call per response *)
Next == Step(MaxTurns, 1, Companies, {FALSE})

Spec == Init /\ [][Next]_vars

(* One turn of tenant c1, completion responses carrying several tool calls *)
NextTurn == Step(1, MaxCalls, {"c1"}, BOOLEAN)

SpecTurn == InitTurn /\ [][NextTurn]_vars

----------------------------------------------------------------------------
(* The reservation tools on their own: create_reservation and              *)
(* cancel_reservation invoked one after the other on one session, as       *)
(* `await tool_fn.ainvoke(tool_args)` does.  `pending` holds the call that *)
(* ran last and `messages` the text it returned.                           *)

Dates == {1, 2}
Times == {1080, 1140, 1170}     \* 18:00, 19:00, 19:30
Parties == {2, 4}

CreateArgs == {Args(d, t, p, 0) : d \in Dates, t \in Times, p \in Parties}
CancelArgs == {Args(0, 0, 0, n) : n \in 1..MaxRows}

ToolInvoke(name, args, fault) ==
    LET out == InvokeTool("public", name, txRes, res, "c1", args, fault)
    IN  /\ pc = "idle"
        /\ Len(txRes) < MaxRows \/ name # "create_reservation"
        /\ Settle(out)
        /\ pending' = <<[name |-> name, args |-> args, id |-> 1]>>
        /\ messages' = <<ToolMessage(out.text, 1)>>
        /\ UNCHANGED <<turn, workers, pc, flow, req, session_id, history, state_messages,
                       node, i, calls, tools_used, next_agent, call_active,
                       last_llm, dispatched, failed, result>>

NextTools ==
    \/ \E args \in CreateArgs, fault \in Faults :
          ToolInvoke("create_reservation", args, fault)
    \/ \E args \in CancelArgs, fault \in {"none", "commit"} :
          ToolInvoke("cancel_reservation", args, fault)

SpecTools == Init /\ [][NextTools]_vars

----------------------------------------------------------------------------
(* History replay on its own: a session of tenant c1 that holds up to      *)
(* MaxLog rows, written by earlier turns; get_conversation_history is      *)
(* applied to it as step 2 of chat() does.                                 *)

SessionRows(n) ==
    [k \in 1..n |->
        LogRow("session-0", "c1", IF k % 2 = 1 THEN "user" ELSE "assistant",
               IF k % 2 = 1 THEN UserText(k) ELSE AnswerText(k))]

InitHistory == \E n \in 0..MaxLog : Idle(SessionRows(n), <<>>)

LoadHistory(fl) ==
    /\ pc = "idle"
    /\ flow' = fl
    /\ session_id' = get_or_create_session(txLog, fl, "session-0", 0)
    /\ history' = get_conversation_history(txLog, fl, session_id', "c1")
    /\ UNCHANGED <<dbVars, turn, workers, pc, req, state_messages, loopVars, next_agent,
                   call_active, last_llm, failed, result>>

NextHistory == \E fl \in Flows : LoadHistory(fl)

SpecHistory == InitHistory /\ [][NextHistory]_vars

----------------------------------------------------------------------------
(* Transcription filter (services/voice_service.py).  Texts are strings    *)
(* over the ASCII letters, digits, blanks and punctuation.                 *)

HALLUCINATION_EXACT ==
    { "thank you", "thanks", "thanks for watching", "subscribe",
      "like and subscribe", "thank you for watching",
      "thanks for listening", "thank you for listening", "you", "bye",
      "bye bye", "bye-bye", "goodbye", "okay", "ok", "so", "uh", "um",
      "hmm", "hm", "ah", "oh", "yeah", "yes", "no", "the end", "...",
      ".", "", "you're welcome", "silence", "applause", "music",
      "laughter", "this is a phone call", "the caller speaks english",
      "caller speaks english", "the caller speaks english.", "english",
      "phone call", "restaurant reservation phone call",
      "restaurant reservation", "i'm going to go ahead and do that",
      "i'll be right back", "let me check", "one moment please",
      "have a good day", "have a nice day", "have a great day",
      "take care", "see you later", "see you soon", "that's it",
      "that's all", "the following", "in this video", "hello", "hi",
      "hey" }

HALLUCINATION_SUBSTRINGS ==
    { "thank you for watching", "thanks for watching",
      "like and subscribe", "subscribe to", "please subscribe",
      "check out the", "see you next", "see you in the next",
      "this is a phone call to", "the caller speaks",
      "caller speaks english", "subtitles by", "captions by",
      "translated by", "transcribed by", "copyright",
      "all rights reserved", "the previous",
      "restaurant reservation phone call", "in this episode",
      "in this video", "don't forget to", "hit the bell",
      "notification" }

UpperCase == "ABCDEFGHIJKLMNOPQRSTUVWXYZ"
LowerCase == "abcdefghijklmnopqrstuvwxyz"
Digits == "0123456789"

Char(s, k) == SubSeq(s, k, k)
Chars(s) == {Char(s, k) : k \in 1..Len(s)}

(* \s and \w of the re module *)
Whitespace == {" ", "\t", "\n"}
WordChars == Chars(UpperCase) \cup Chars(LowerCase) \cup Chars(Digits) \cup {"_"}

IsSpace(c) == c \in Whitespace
IsWord(c) == c \in WordChars

(* str.strip() *)
RECURSIVE lstrip(_)
lstrip(s) ==
    IF s # "" /\ IsSpace(Char(s, 1)) THEN lstrip(SubSeq(s, 2, Len(s))) ELSE s

RECURSIVE rstrip(_, _)
rstrip(s, cs) ==
    IF s # "" /\ Char(s, Len(s)) \in cs THEN rstrip(SubSeq(s, 1, Len(s) - 1), cs)
    ELSE s

strip(s) == rstrip(lstrip(s), Whitespace)

(* str.lower() *)
lower_char(c) ==
    IF c \in Chars(UpperCase)
    THEN Char(LowerCase, CHOOSE k \in 1..Len(UpperCase) : Char(UpperCase, k) = c)
    ELSE c

RECURSIVE lower(_)
lower(s) ==
    IF s = "" THEN "" ELSE lower_char(Char(s, 1)) \o lower(SubSeq(s, 2, Len(s)))

(* `sub in t` *)
Contains(t, sub) ==
    \E k \in 0..(Len(t) - Len(sub)) : SubSeq(t, k + 1, k + Len(sub)) = sub

StartsWith(s, prefix) ==
    Len(prefix) <= Len(s) /\ SubSeq(s, 1, Len(prefix)) = prefix

EndsWith(s, suffix) ==
    Len(suffix) <= Len(s) /\ SubSeq(s, Len(s) - Len(suffix) + 1, Len(s)) = suffix

After(s, prefix) == SubSeq(s, Len(prefix) + 1, Len(s))

(* the text without the one optional final "." of `\.?$` *)
WithoutFinalDot(s) == IF EndsWith(s, ".") THEN SubSeq(s, 1, Len(s) - 1) ELSE s

(* [\w\s]+ *)
WordsAndBlanks(s) ==
    s # "" /\ \A k \in 1..Len(s) : IsWord(Char(s, k)) \/ IsSpace(Char(s, k))

(* ^\W+$ *)
only_symbols(s) == s # "" /\ \A k \in 1..Len(s) : ~IsWord(Char(s, k))

(* ^(\.{2,}|...+)$, the ellipsis character being outside the alphabet *)
only_dots(s) == Len(s) >= 2 /\ \A k \in 1..Len(s) : Char(s, k) = "."

(* ^[\s\W]*$ *)
blank_or_symbols(s) ==
    \A k \in 1..Len(s) : IsSpace(Char(s, k)) \/ ~IsWord(Char(s, k))

(* ^this is [\w\s]+ bell\.?$, ignoring case *)
this_is_bell(s) ==
    LET core == WithoutFinalDot(s)
    IN  /\ StartsWith(lower(core), "this is ")
        /\ EndsWith(lower(core), " bell")
        /\ Len(core) > Len("this is ") + Len(" bell")
        /\ WordsAndBlanks(SubSeq(core, Len("this is ") + 1, Len(core) - Len(" bell")))

(* ^my name is [\w\s]+\.?$, ignoring case *)
my_name_is(s) ==
    LET core == WithoutFinalDot(s)
    IN  /\ StartsWith(lower(core), "my name is ")
        /\ WordsAndBlanks(After(core, "my name is "))

(* ^that'?s it for now[\.\!]?\s*(have a|bye|good), ignoring case *)
thats_it_for_now(s) ==
    \E q \in {"", "'"}, mark \in {"", ".", "!"} :
        LET opening == "that" \o q \o "s it for now" \o mark
        IN  /\ StartsWith(lower(s), opening)
            /\ \E w \in {"have a", "bye", "good"} :
                  StartsWith(lstrip(After(lower(s), opening)), w)

(* have a (great|good|nice|wonderful) (day|one|evening)[\.\!]? *)
Farewells ==
    {"have a " \o a \o " " \o d \o mark :
        a \in {"great", "good", "nice", "wonderful"},
        d \in {"day", "one", "evening"}, mark \in {"", ".", "!"}}

(* one or two farewells, blanks allowed after each, and nothing else;    *)
(* ignoring case                                                          *)
have_a_day(s) ==
    \E first \in Farewells :
        /\ StartsWith(lower(s), first)
        /\ lstrip(After(lower(s), first)) \in Farewells \cup {""}

(* `pat.match(text.strip())` for some pattern of HALLUCINATION_REGEX *)
HALLUCINATION_REGEX(s) ==
    \/ only_symbols(s)
    \/ only_dots(s)
    \/ blank_or_symbols(s)
    \/ this_is_bell(s)
    \/ my_name_is(s)
    \/ thats_it_for_now(s)
    \/ have_a_day(s)

is_hallucination(text) ==
    LET t == rstrip(lower(strip(text)), {"."})
    IN  IF t \in HALLUCINATION_EXACT THEN TRUE
        ELSE IF Len(t) <= 3 THEN TRUE
        ELSE IF \E sub \in HALLUCINATION_SUBSTRINGS : Contains(t, sub) THEN TRUE
        ELSE HALLUCINATION_REGEX(strip(text))

(* What a caller says in a reservation call *)
CallerSentences ==
    { "I'd like a table for four on Saturday",
      "Could we get a table for two at seven",
      "My name is John Smith",
      "It is under the name Maria Lopez",
      "We are six people",
      "I want to cancel my booking" }

(* Other transcriptions: short ones, noise, farewells and stock phrases in *)
(* a longer text                                                           *)
OtherTexts ==
    { "a", "ab", "abc", "abcd", "ab c", "two", "four", "7 pm", "?!", "?!?!", "- - -",
      "....", "This is Matt Bell", "this is the bell", "My name is",
      "that's it for now. bye", "thats it for now! have a good one",
      "that's it for now", "have a wonderful evening! have a nice day.",
      "Have a great one", "have a good day and a table" }
        \cup {"and " \o sub \o " today" : sub \in HALLUCINATION_SUBSTRINGS}

Capitalised(s) ==
    IF s # "" /\ Char(s, 1) \in Chars(LowerCase)
    THEN Char(UpperCase, CHOOSE k \in 1..Len(LowerCase) : Char(LowerCase, k) = Char(s, 1))
             \o SubSeq(s, 2, Len(s))
    ELSE s

(* the transcriptions handed to the filter: as Whisper returns them, with  *)
(* or without surrounding blanks, a capital first letter and a final mark  *)
Transcriptions ==
    {lead \o (IF cap THEN Capitalised(core) ELSE core) \o mark \o trail :
        lead \in {"", " "},
        cap \in BOOLEAN,
        core \in HALLUCINATION_EXACT \cup HALLUCINATION_SUBSTRINGS
                    \cup CallerSentences \cup OtherTexts,
        mark \in {"", ".", "!"},
        trail \in {"", "\n"}}

FilterCall(text) == [name |-> "is_hallucination", args |-> [text |-> text], id |-> 1]

(* a transcription waits to be classified *)
InitVoice == \E text \in Transcriptions : IdleWith(<<>>, <<>>, <<FilterCall(text)>>, <<>>)

(* is_hallucination(text) is evaluated; `messages` holds what it returned *)
Classify ==
    /\ pc = "idle"
    /\ pending # <<>> /\ pending[1].name = "is_hallucination"
    /\ messages = <<>>
    /\ messages' = <<is_hallucination(pending[1].args.text)>>
    /\ UNCHANGED <<dbVars, turn, workers, pc, flow, req, session_id, history, state_messages,
                   node, i, calls, pending, tools_used, next_agent, call_active,
                   last_llm, dispatched, failed, result>>

NextVoice == Classify

SpecVoice == InitVoice /\ [][NextVoice]_vars

----------------------------------------------------------------------------
(* Backend reservations API (backend/app/api/v1/reservations.py).  Times   *)
(* of day are minutes after midnight.                                      *)

MinutesPerDay == 24 * 60

BackendDefaultDuration == 90

(* datetime.combine(date.today(), t) + timedelta(minutes), of which        *)
(* .time() keeps the time of day only                                      *)
_add_minutes_to_time(t, minutes) == (t + minutes) % MinutesPerDay

None == [reservation_number |-> 0]

(* check_table_conflict: the first active reservation of the table and     *)
(* date whose window meets the new one, None when there is no such row     *)
check_table_conflict(view, cid, table, d, start_time, duration_minutes) ==
    LET new_end_time == _add_minutes_to_time(start_time, duration_minutes)
        existing_end(row) == _add_minutes_to_time(row.start_time, row.duration_minutes)
        hits == {k \in DOMAIN view :
                    /\ view[k].company_id = cid
                    /\ view[k].table_id = table
                    /\ view[k].date = d
                    /\ view[k].status \in ActiveStatuses
                    /\ view[k].start_time < new_end_time
                    /\ start_time < existing_end(view[k])}
    IN  IF hits = {} THEN None
        ELSE view[CHOOSE k \in hits : \A m \in hits : k <= m]

(* POST /reservations, the conflict check of a request that names a table: *)
(* `data.duration_minutes or 90`                                           *)
create_reservation_conflict(view, cid, data) ==
    check_table_conflict(view, cid, data.table_id, data.date, data.start_time,
                         IF data.duration_minutes = 0 THEN BackendDefaultDuration
                         ELSE data.duration_minutes)

BackendTimes == {600, 1140, 1320, 1380, 1410}   \* 10:00 19:00 22:00 23:00 23:30
BackendDurations == {60, 90, 120}

(* reservations rows as the backend stores them *)
BackendRows ==
    {[ReservationRow("c1", table, d, start, 1) EXCEPT
          !.duration_minutes = duration, !.status = st] :
        table \in {"t1", "t2"}, d \in Dates, start \in BackendTimes,
        duration \in BackendDurations, st \in {"confirmed", "cancelled"}}

(* ReservationCreate bodies for table t1 on date 1; duration 0: not given *)
BackendRequests ==
    {[table_id |-> "t1", date |-> 1, start_time |-> start,
      duration_minutes |-> duration] :
        start \in BackendTimes, duration \in BackendDurations \cup {0}}

ConflictCall(data) == [name |-> "check_table_conflict", args |-> data, id |-> 1]

(* one reservation is stored and a request for a table waits *)
InitBackend ==
    \E row \in BackendRows, data \in BackendRequests :
        IdleWith(<<>>, <<row>>, <<ConflictCall(data)>>, <<>>)

(* create_reservation runs its conflict check; `messages` holds what       *)
(* check_table_conflict returned                                           *)
CheckTableConflict ==
    /\ pc = "idle"
    /\ pending # <<>> /\ pending[1].name = "check_table_conflict"
    /\ messages = <<>>
    /\ messages' = <<create_reservation_conflict(txRes, "c1", pending[1].args)>>
    /\ UNCHANGED <<dbVars, turn, workers, pc, flow, req, session_id, history, state_messages,
                   node, i, calls, pending, tools_used, next_agent, call_active,
                   last_llm, dispatched, failed, result>>

NextBackend == CheckTableConflict

SpecBackend == InitBackend /\ [][NextBackend]_vars

----------------------------------------------------------------------------
(* Two turns of different sessions of tenant c1 that dispatch              *)
(* create_reservation at the same time.  Each request has its own          *)
(* AsyncSession and transaction; the database runs them READ COMMITTED     *)
(* (no isolation level is configured): every statement sees the committed  *)
(* rows and the rows its own transaction wrote.  The statements of         *)
(* create_reservation are the steps: the table search with its conflict    *)
(* queries, the COUNT for the number, the INSERT and the commit.           *)

Sessions == {"s1", "s2"}

RaceTimes == {1140, 1170, 1260}     \* 19:00, 19:30, 21:00

RaceArgs == {[Args(1, t, p, 0) EXCEPT !.phone = "phone-" \o w] :
                t \in RaceTimes, p \in Parties, w \in Sessions}

(* a request that is about to run create_reservation *)
Worker(args) ==
    [pc |-> "check", args |-> args, table |-> "", num |-> 0, rows |-> <<>>,
     text |-> ""]

(* what a statement of the request sees *)
Seen(w) == res \o workers[w].rows

(* uq_reservation_number: the INSERT waits while another open transaction  *)
(* holds a row with the same company and number                            *)
InsertGoesOn(w, num) ==
    \A o \in Sessions \ {w} :
        \A k \in DOMAIN workers[o].rows :
            workers[o].rows[k].reservation_number # num

(* lines 169-201: the tables query and the conflict query per table; no    *)
(* table: the text is returned, the transaction stays as it is             *)
RaceCheck(w) ==
    LET me == workers[w]
        table == chosen_table(Seen(w), "c1", me.args.date, me.args.time,
                              me.args.party)
    IN  /\ workers # <<>>
        /\ me.pc = "check"
        /\ workers' = [workers EXCEPT ![w] =
              IF table = "" THEN [me EXCEPT !.pc = "done", !.text = TXT_NO_TABLE]
              ELSE [me EXCEPT !.pc = "number", !.table = table]]
        /\ UNCHANGED <<dbVars, turn, pc, flow, req, session_id, history,
                       state_messages, loopVars, next_agent, call_active,
                       last_llm, failed, result>>

(* lines 236-241: the COUNT query and the number made of it; the customer  *)
(* lookup and INSERT before it touch the caller's own customers row only   *)
RaceNumber(w) ==
    LET me == workers[w]
    IN  /\ workers # <<>>
        /\ me.pc = "number"
        /\ workers' = [workers EXCEPT ![w] =
              [me EXCEPT !.pc = "insert", !.num = CompanyCount(Seen(w), "c1") + 1]]
        /\ UNCHANGED <<dbVars, turn, pc, flow, req, session_id, history,
                       state_messages, loopVars, next_agent, call_active,
                       last_llm, failed, result>>

(* lines 243-274: INSERT INTO reservations.  A committed row with the same *)
(* number makes it raise: the except branch rolls back and returns the     *)
(* error text                                                              *)
RaceInsert(w) ==
    LET me == workers[w]
        row == ReservationRow("c1", me.table, me.args.date, me.args.time, me.num)
        taken == \E k \in DOMAIN res : /\ res[k].company_id = "c1"
                                       /\ res[k].reservation_number = me.num
    IN  /\ workers # <<>>
        /\ me.pc = "insert"
        /\ InsertGoesOn(w, me.num)
        /\ workers' = [workers EXCEPT ![w] =
              IF taken
              THEN [me EXCEPT !.pc = "done", !.rows = <<>>, !.text = TXT_CREATE_FAILED]
              ELSE [me EXCEPT !.pc = "commit", !.rows = <<row>>]]
        /\ UNCHANGED <<dbVars, turn, pc, flow, req, session_id, history,
                       state_messages, loopVars, next_agent, call_active,
                       last_llm, failed, result>>

(* line 276: db.commit() and the confirmation; a failing commit ends in    *)
(* the except branch                                                       *)
RaceCommit(w, committed) ==
    LET me == workers[w]
    IN  /\ workers # <<>>
        /\ me.pc = "commit"
        /\ IF committed
           THEN /\ res' = res \o me.rows
                /\ cust' = cust \cup {CustomerRow("c1", me.args.phone)}
                /\ workers' = [workers EXCEPT ![w] =
                      [me EXCEPT !.pc = "done", !.rows = <<>>, !.text = TXT_CONFIRMED]]
           ELSE /\ UNCHANGED <<res, cust>>
                /\ workers' = [workers EXCEPT ![w] =
                      [me EXCEPT !.pc = "done", !.rows = <<>>,
                                 !.text = TXT_CREATE_FAILED]]
        /\ UNCHANGED <<log, txLog, txRes, txCust, turn, pc, flow, req, session_id,
                       history, state_messages, loopVars, next_agent, call_active,
                       last_llm, failed, result>>

(* both requests have reached their tool call *)
InitRace ==
    \E a1 \in RaceArgs, a2 \in RaceArgs :
        /\ a1.phone = "phone-s1" /\ a2.phone = "phone-s2"
        /\ IdleWith(<<>>, <<>>, <<>>, [w \in Sessions |->
                                          Worker(IF w = "s1" THEN a1 ELSE a2)])

NextRace ==
    \E w \in Sessions :
        \/ RaceCheck(w)
        \/ RaceNumber(w)
        \/ RaceInsert(w)
        \/ \E committed \in BOOLEAN : RaceCommit(w, committed)

SpecRace == InitRace /\ [][NextRace]_vars

----------------------------------------------------------------------------
(* Properties *)

(* the most completion calls one entry of each loop may make: N + 1 *)
LoopCeiling(nd) ==
    IF nd = "reservation" THEN 6 ELSE IF nd = "information" THEN 4 ELSE 7

(* a specialist node has returned to the graph without a failure *)
NodeReturned == node # "none" /\ pc \in {"extract", "persist"} /\ ~failed

(* C1: whatever the completions answer and whatever the tools return, one  *)
(* entry of the reservation, information or internal-assistant loop makes  *)
(* at most N + 1 completion calls (N = 5, 3, 6); inside the loop the       *)
(* number of calls made follows the number of completed passes, which is   *)
(* at most N, so a further call always ends or advances the loop; and      *)
(* when the node is left, it has appended one reply message to the state.  *)
C1_LoopBounded ==
    node # "none" =>
        /\ calls <= LoopCeiling(node)
        /\ pc = "llm" => (calls = i /\ i < LoopCeiling(node))
        /\ pc = "dispatch" => (calls = i + 1 /\ i + 1 < LoopCeiling(node)
                               /\ pending # <<>>)
        /\ NodeReturned =>
              /\ Len(state_messages) = Len(history) + 2
              /\ Last(state_messages).role = "ai"
              /\ Last(state_messages).tool_calls = <<>>

(* the internal assistant's loop ran out: six passes with tool calls, the  *)
(* seventh call gave the reply                                             *)
C1_Witness ==
    /\ node = "assistant" /\ pc = "extract"
    /\ i = AssistantMaxIterations /\ calls = AssistantMaxIterations + 1

(* C2: every public turn that returns, returns a non-empty reply text,     *)
(* also when the specialist's last completion had an empty text.           *)
C2_ReplyNonEmpty ==
    (flow = "public" /\ result.status = "returned") => result.response # ""

(* the minutes of its date a reservation row occupies *)
Window(row) == row.start_time .. (row.start_time + DurationOf(row) - 1)

IsActive(row) == row.status \in ActiveStatuses

(* two rows hold the same table on the same date at the same minute *)
Clash(a, b) ==
    /\ a.company_id = b.company_id /\ a.table_id = b.table_id /\ a.date = b.date
    /\ Window(a) \cap Window(b) # {}

NoDoubleBooking(rows) ==
    \A a, b \in DOMAIN rows :
        (a < b /\ IsActive(rows[a]) /\ IsActive(rows[b])) => ~Clash(rows[a], rows[b])

(* the row a booking with these arguments would occupy on table t *)
Wanted(t, args) == ReservationRow("c1", t, args.date, args.time, 0)

(* the tables of the tenant that seat the party and are free of active     *)
(* rows in the wanted window                                               *)
FreeTables(rows, args) ==
    {Tables[k].id : k \in
        {k \in DOMAIN Tables :
            /\ Tables[k].company = "c1" /\ Tables[k].capacity_max >= args.party
            /\ \A r \in DOMAIN rows :
                  IsActive(rows[r]) => ~Clash(rows[r], Wanted(Tables[k].id, args))}}

(* C3: after any sequence of create_reservation and cancel_reservation     *)
(* invocations no two active reservations of one table and date overlap;   *)
(* a booking is refused for lack of a table only when every table that     *)
(* seats the party holds an active reservation overlapping the wanted      *)
(* window (a window that ends when the other starts does not overlap, a    *)
(* cancelled reservation does not count); a booking that succeeds adds one *)
(* active row on a free table; a failed one changes nothing.               *)
C3_NoDoubleBooking ==
    /\ [](NoDoubleBooking(res))
    /\ [][(pending' # <<>> /\ pending'[1].name = "create_reservation") =>
            LET args == pending'[1].args
                text == messages'[1].content
            IN  /\ text = TXT_NO_TABLE => (FreeTables(res, args) = {} /\ res' = res)
                /\ text = TXT_CREATE_FAILED => res' = res
                /\ text = TXT_CONFIRMED =>
                      /\ Len(res') = Len(res) + 1
                      /\ SubSeq(res', 1, Len(res)) = res
                      /\ IsActive(Last(res'))
                      /\ Last(res').table_id \in FreeTables(res, args)
                      /\ Last(res').date = args.date
                      /\ Last(res').start_time = args.time]_vars

(* the table for four holds 18:00-19:30 and 19:30-21:00 of one day, and a  *)
(* booking for four at 19:00 of that day has just been refused             *)
C3_Witness ==
    /\ \E a, b \in DOMAIN res :
          /\ IsActive(res[a]) /\ IsActive(res[b])
          /\ res[a].table_id = res[b].table_id /\ res[a].date = res[b].date
          /\ res[b].start_time = res[a].start_time + DurationOf(res[a])
          /\ pending # <<>> /\ pending[1].name = "create_reservation"
          /\ pending[1].args.date = res[a].date
          /\ pending[1].args.time \in Window(res[a]) \ {res[a].start_time}
    /\ messages # <<>> /\ messages[1].content = TXT_NO_TABLE

(* C4: a public turn in which the caller confirms the booking hands        *)
(* create_reservation to tool dispatch exactly once, whatever the          *)
(* completions request.                                                    *)
C4_CreateOnce ==
    (flow = "public" /\ req.confirms /\ result.status = "pending" /\ ~failed) =>
        TimesIn(dispatched, "create_reservation") = 1

(* C5: a failure while the graph is built (step 4) or run (step 5) of a    *)
(* public turn does not leave chat() as an exception: the turn goes on     *)
(* with the apology, an empty tools_used and call_active true.             *)
C5_FailureCaught ==
    [][(/\ flow = "public"
        /\ pc \in {"build", "supervisor", "llm"}
        /\ (failed' \/ result'.status = "raised")) =>
            /\ result'.status = "pending"
            /\ result'.response = APOLOGY
            /\ result'.tools_used = <<>>
            /\ result'.call_active]_vars

(* C6 as stated: when a public turn of a deployment without reservations   *)
(* ends with the apology, no reservation written during the turn is left   *)
(* committed.                                                              *)
C6_NothingLeftCommitted ==
    (flow = "public" /\ failed /\ turn = 1) => res = <<>>

(* C6, amended: the rollback of an apology turn discards exactly the       *)
(* writes not yet committed (the transaction's view falls back to the      *)
(* committed tables, the user message included when it was still pending); *)
(* what a tool committed earlier in the turn stays committed.              *)
C6_RollbackKeepsCommitted ==
    [][(flow = "public" /\ ~failed /\ failed') =>
            /\ res' = res /\ log' = log
            /\ txRes' = res /\ txLog' = log
            /\ result'.response = APOLOGY]_vars

(* an apology turn whose create_reservation had committed a row before     *)
(* the failure                                                             *)
C6_Witness ==
    /\ flow = "public" /\ failed /\ pc = "persist"
    /\ "create_reservation" \in Range(tools_used)
    /\ res # <<>>

(* the rows of the earlier exchange a deployment may start with *)
EarlierRows(rows) ==
    LET IsEarlier(r) == r.content \in {UserText(0), AnswerText(0)}
    IN  SelectSeq(rows, IsEarlier)

(* C7: when a public turn has returned, conversation_logs has gained       *)
(* exactly the user message followed by one assistant message that equals  *)
(* the returned reply.                                                     *)
C7_LogGainsExchange ==
    (flow = "public" /\ turn = 1 /\ result.status = "returned") =>
        log = EarlierRows(log) \o
              << LogRow(session_id, req.company_id, "user", req.message),
                 LogRow(session_id, req.company_id, "assistant", result.response) >>

(* C8: the second public turn of a session, of the same tenant, replays    *)
(* the user message and the assistant reply of the first turn, in that     *)
(* order, and nothing but human and assistant messages.  The first turn    *)
(* has returned and its reply is the last row of conversation_logs.        *)
C8_ReplayHoldsFirstTurn ==
    [][(/\ turn = 1 /\ turn' = 2
        /\ flow = "public" /\ flow' = "public"
        /\ result.status = "returned"
        /\ log # <<>>
        /\ Last(log) = LogRow(result.session_id, req.company_id, "assistant",
                              result.response)
        /\ req'.session_id = result.session_id
        /\ req'.company_id = req.company_id
        /\ pc' = "build") =>
            /\ \E a, b \in DOMAIN history' :
                  /\ a < b
                  /\ history'[a] = Message("human", req.message)
                  /\ history'[b] = Message("ai", result.response)
            /\ \A k \in DOMAIN history' : history'[k].role \in {"human", "ai"}]_vars

(* the last n entries of a sequence *)
LastRows(rows, n) == SubSeq(rows, Len(rows) - Min(n, Len(rows)) + 1, Len(rows))

(* C9: when a session holds more rows than the cap (50 public, 30          *)
(* internal), the replayed history is the last cap rows of the session.    *)
C9_ReplayIsLatest ==
    (session_id = "session-0" /\ Len(log) > (IF flow = "public" THEN 50 ELSE 30)) =>
        history = RowsToMessages(LastRows(log, IF flow = "public" THEN 50 ELSE 30))

(* every pass of the running node's loop carried tool calls and the node   *)
(* has returned                                                            *)
Exhausted == NodeReturned /\ i = LoopCeiling(node) - 1

(* after the call without tools the loop is over: nothing is dispatched    *)
ForcedCallEndsLoop ==
    (node # "none" /\ last_llm = [who |-> node, tools |-> FALSE]) =>
        (pc \in {"extract", "persist"} /\ pending = <<>>)

C11_DispatchNeverFails ==
    [][pc = "dispatch" =>
        LET call == Head(pending)
            answer == Last(messages')
        IN  /\ ~failed' /\ result' = result
            /\ node' = node /\ state_messages' = state_messages
            /\ messages' = Append(messages, answer)
            /\ answer.role = "tool" /\ answer.tool_call_id = call.id
            /\ call.name \notin Registry(flow) => answer.content = "Unknown tool"
            /\ answer.content \in {"Unknown tool", "Error executing"} =>
                  UNCHANGED <<dbVars, tools_used>>
            /\ pending' = Tail(pending)
            /\ calls' = calls
            /\ IF pending' = <<>> THEN pc' = "llm" /\ i' = i + 1
               ELSE pc' = "dispatch" /\ i' = i]_vars

(* a response asked for a name the registry lacks and for a tool that      *)
(* raised; both were answered and the loop is at its next completion call  *)
C11_Witness ==
    /\ node # "none" /\ pc = "llm"
    /\ Len(messages) = Len(Entry) + 3
    /\ messages[Len(Entry) + 2].content = "Unknown tool"
    /\ messages[Len(Entry) + 3].content = "Error executing"

(* the tool messages the current pass has appended to the working list *)
PassAnswers == SubSeq(messages, Len(Entry) + 2, Len(messages))

(* C12: in a pass with tool calls the working list holds the assistant     *)
(* tool-call message and then, in request order, one tool message per      *)
(* request dispatched so far, each tagged with its request's call id; the  *)
(* requests not yet dispatched are the rest of the response, in order; at  *)
(* the next completion call every request has exactly one tool message.    *)
C12_SequentialDispatch ==
    (node # "none" /\ pc \in {"llm", "dispatch"} /\ Len(messages) > Len(Entry)) =>
        LET request == messages[Len(Entry) + 1]
            ids == request.tool_calls
            done == Len(PassAnswers)
        IN  /\ SubSeq(messages, 1, Len(Entry)) = Entry
            /\ request.role = "ai" /\ ids # <<>>
            /\ done + Len(pending) = Len(ids)
            /\ \A k \in 1..done :
                  /\ PassAnswers[k].role = "tool"
                  /\ PassAnswers[k].tool_call_id = ids[k]
            /\ \A k \in 1..Len(pending) : pending[k].id = ids[done + k]
            /\ \A j, k \in DOMAIN ids : j # k => ids[j] # ids[k]
            /\ pc = "llm" => pending = <<>>
            /\ pc = "dispatch" => pending # <<>>

(* the information loop asked for two lookups in one response; both ran    *)
(* and were answered in order                                              *)
C12_Witness ==
    /\ node = "information" /\ pc = "llm"
    /\ Len(PassAnswers) = 2
    /\ messages[Len(Entry) + 1].tool_calls =
          <<PassAnswers[1].tool_call_id, PassAnswers[2].tool_call_id>>
    /\ \A k \in 1..2 : PassAnswers[k].content = TXT_LOOKUP

(* the router has answered in this turn and no specialist completion has  *)
(* been made since                                                         *)
Routed == last_llm.who = "supervisor" /\ ~failed

Routes == {"self", "reservation", "information", "farewell"}

(* the decision a router response stands for: its route when it carries    *)
(* one of the four routes in a structured decision or a JSON object, self  *)
(* otherwise; its message field, or the full text when the field or the    *)
(* whole object is missing from a free text                                *)
DecidedRoute(r) ==
    IF r.kind \in {"structured", "json"} /\ r.route \in Routes THEN r.route
    ELSE "self"

DecidedMessage(r) ==
    IF r.kind = "structured" THEN (IF r.message = "absent" THEN "" ELSE r.message)
    ELSE IF r.kind = "json" /\ r.message # "absent" THEN r.message
    ELSE r.content

(* the turn ends at the router: no specialist loop, no completion call of  *)
(* a loop, no dispatch                                                     *)
EndsAtRouter ==
    /\ pc \in {"extract", "persist"}
    /\ node = "none" /\ calls = 0 /\ i = 0
    /\ dispatched = <<>> /\ tools_used = <<>> /\ pending = <<>>

(* C13: every router response (structured, JSON in free text, text whose   *)
(* braces do not parse, plain text, empty) gives a decision; it is self    *)
(* when no route decodes or the route is none of the four, and then the    *)
(* turn ends at the router with the call active; when nothing decodes the  *)
(* full text is the message.                                               *)
C13_RouterAlwaysDecides ==
    Routed =>
        LET r == last_llm.response
            route == DecidedRoute(r)
        IN  /\ next_agent = (IF route = "self" THEN "__end__" ELSE route)
            /\ (r.route \notin Routes \/ r.kind \notin {"structured", "json"}) =>
                  (route = "self" /\ EndsAtRouter /\ call_active)
            /\ r.kind \in {"badjson", "text"} =>
                  Last(state_messages) = Message("ai", r.content)
            /\ r.kind = "empty" => Last(state_messages) = Message("ai", GREETING)

(* the router answered with a JSON object whose route is none of the four *)
C13_Witness ==
    /\ Routed /\ pc = "extract"
    /\ last_llm.response.kind = "json" /\ last_llm.response.route = "transfer"
    /\ next_agent = "__end__"

(* C14: when the router decides farewell, the reply is the router's        *)
(* message, or the fixed goodbye when it is empty, call_active is false,   *)
(* and the turn ends at the router.                                        *)
C14_Farewell ==
    (Routed /\ DecidedRoute(last_llm.response) = "farewell") =>
        LET text == IF DecidedMessage(last_llm.response) = "" THEN GOODBYE
                    ELSE DecidedMessage(last_llm.response)
        IN  /\ EndsAtRouter
            /\ ~call_active
            /\ state_messages = history \o <<Message("human", req.message),
                                             Message("ai", text)>>
            /\ pc = "persist" =>
                  /\ result.response = text
                  /\ ~result.call_active
                  /\ result.tools_used = <<>>

(* a farewell with an empty message is about to be persisted *)
C14_Witness ==
    /\ Routed /\ pc = "persist"
    /\ last_llm.response.route = "farewell" /\ last_llm.response.message = ""
    /\ result.response = GOODBYE /\ ~result.call_active

(* C15: when the router decides self, directly or by fallback, the reply   *)
(* is the router's message, or the fixed greeting when it is empty, hence  *)
(* never empty; call_active stays true and the turn ends at the router.    *)
C15_Self ==
    (Routed /\ DecidedRoute(last_llm.response) = "self") =>
        LET text == IF DecidedMessage(last_llm.response) = "" THEN GREETING
                    ELSE DecidedMessage(last_llm.response)
        IN  /\ EndsAtRouter
            /\ call_active
            /\ text # ""
            /\ state_messages = history \o <<Message("human", req.message),
                                             Message("ai", text)>>
            /\ pc = "persist" =>
                  /\ result.response = text
                  /\ result.call_active
                  /\ result.tools_used = <<>>

(* an empty router response is answered with the greeting *)
C15_Witness ==
    /\ Routed /\ pc = "persist"
    /\ last_llm.response.kind = "empty"
    /\ result.response = GREETING /\ result.call_active

(* C16: when the router decides reservation or information, its message    *)
(* is dropped, the loop of that name and no other runs, and the reply of   *)
(* the turn is the text of the message that loop returns.                  *)
C16_Specialist ==
    /\ (Routed /\ DecidedRoute(last_llm.response) \in {"reservation", "information"}) =>
          /\ node = DecidedRoute(last_llm.response)
          /\ next_agent = node
          /\ pc \in {"enter", "llm"} /\ calls = 0
          /\ state_messages = Append(history, Message("human", req.message))
    /\ (flow = "public" /\ node # "none") =>
          /\ node \in {"reservation", "information"}
          /\ last_llm.who \in {"supervisor", node}
          /\ (pc = "persist" /\ ~failed) =>
                /\ last_llm.who = node
                /\ \E reply \in {"", AnswerText(turn)} :
                      /\ state_messages = history \o <<Message("human", req.message),
                                                       Message("ai", reply)>>
                      /\ result.response = reply

(* the router sent the turn to the information loop and gave a message of  *)
(* its own, which is not in the state the loop starts from                 *)
C16_Witness ==
    /\ Routed /\ pc = "enter" /\ node = "information"
    /\ last_llm.response.message = RouterText(turn)
    /\ \A k \in DOMAIN state_messages : state_messages[k].content # RouterText(turn)

(* C17: the tools_used of a turn's result holds only names of the flow's   *)
(* registry that were dispatched in this turn; the list is empty when the  *)
(* graph starts, so nothing of an earlier turn is in it; it is empty when  *)
(* the turn ended at the router and when the turn failed.                  *)
C17_ToolsUsedTurnScoped ==
    /\ pc \in {"supervisor", "enter"} => tools_used = <<>>
    /\ Range(tools_used) \subseteq Registry(flow)
    /\ \A name \in Range(tools_used) : TimesIn(dispatched, name) >= 1
    /\ result.status \in {"pending", "returned"} =>
          /\ Range(result.tools_used) \subseteq Registry(flow)
          /\ UNKNOWN_TOOL \notin Range(result.tools_used)
          /\ failed => result.tools_used = <<>>
    /\ result.status = "pending" =>
          /\ \A name \in Range(result.tools_used) : TimesIn(dispatched, name) >= 1
          /\ node = "none" => result.tools_used = <<>>
          /\ ~failed => result.tools_used = tools_used

(* the second turn ran a menu lookup after the first turn had booked a     *)
(* table: its result names the lookup alone                                *)
C17_Witness ==
    /\ turn = 2 /\ res # <<>>
    /\ node = "information" /\ result.status = "pending"
    /\ result.tools_used = <<"search_menu">>

(* C18: a failure while a conversation message is saved, the user message  *)
(* in step 3 or the reply in step 6, is swallowed: no exception leaves     *)
(* chat() and the reply is returned.                                       *)
C18_PersistFailureSwallowed ==
    [][/\ pc = "idle" => result'.status # "raised"
       /\ pc = "persist" =>
             /\ result'.status = "returned"
             /\ result'.response = result.response]_vars

(* C19: a create_reservation invocation hands back a text, never an        *)
(* exception, and leaves nothing pending in the session.  When it did not  *)
(* succeed, the committed reservations and customers are what they were    *)
(* and the transaction sees no row of the failed attempt; a customer row   *)
(* becomes durable only together with the reservation row it was written   *)
(* for.                                                                    *)
C19_CreateAllOrNothing ==
    [][(pending' # <<>> /\ pending'[1].name = "create_reservation") =>
        LET args == pending'[1].args
            answer == messages'[1]
        IN  /\ answer.role = "tool"
            /\ answer.content \in {TXT_CONFIRMED, TXT_NO_TABLE, TXT_CREATE_FAILED}
            /\ txRes' = res' /\ txCust' = cust'
            /\ answer.content # TXT_CONFIRMED => (res' = res /\ cust' = cust)
            /\ answer.content = TXT_CONFIRMED =>
                  /\ Len(res') = Len(res) + 1
                  /\ cust' = cust \cup {CustomerRow("c1", args.phone)}
            /\ cust' # cust => Len(res') = Len(res) + 1]_vars

(* a caller without a customer row has just failed to book, after another  *)
(* caller's booking went through: no row of the failed attempt is left     *)
C19_Witness ==
    /\ pending # <<>> /\ pending[1].name = "create_reservation"
    /\ messages # <<>> /\ messages[1].content = TXT_CREATE_FAILED
    /\ Len(res) = 1 /\ Cardinality(cust) = 1
    /\ CustomerRow("c1", pending[1].args.phone) \notin txCust

(* C20: a tool's commit or rollback leaves the turn's pending              *)
(* conversation-log writes alone: no dispatch changes the committed        *)
(* conversation_logs or what the transaction holds pending for it.         *)
C20_LogIndependentOfTools ==
    [][pc = "dispatch" => (log' = log /\ txLog' = txLog)]_vars

(* C21: an internal turn whose graph fails returns the fixed apology and   *)
(* is logged: conversation_logs gains the user message and the apology as  *)
(* the assistant message.                                                  *)
C21_InternalFailureLogged ==
    (flow = "internal" /\ turn = 1 /\ failed /\ result.status = "returned") =>
        /\ result.response = INTERNAL_APOLOGY
        /\ log = EarlierRows(log) \o
              << LogRow(session_id, req.company_id, "user", req.message),
                 LogRow(session_id, req.company_id, "assistant", INTERNAL_APOLOGY) >>

(* C22: no step of an internal turn changes the reservations or the        *)
(* customers, committed or pending, whatever the completions request; the  *)
(* conversation log only grows.                                            *)
C22_InternalReadOnly ==
    [][flow' = "internal" =>
          /\ res' = res /\ cust' = cust
          /\ txRes' = txRes /\ txCust' = txCust
          /\ Len(log') >= Len(log) /\ SubSeq(log', 1, Len(log)) = log]_vars

(* an internal turn was asked for the public booking tool after a public   *)
(* turn had booked a table: the request was answered as an unknown tool    *)
C22_Witness ==
    /\ flow = "internal" /\ node = "assistant" /\ pc = "llm"
    /\ res # <<>>
    /\ TimesIn(dispatched, "create_reservation") >= 1
    /\ Last(messages).content = "Unknown tool"

(* the session ids that have a persisted message *)
PersistedSessions == {log[k].session_id : k \in DOMAIN log}

(* C23: a turn submitted with a session id that has a persisted message    *)
(* runs, and returns, under that id; a turn submitted without an id or     *)
(* with an id that has no persisted message gets a new id, one that        *)
(* differs from the supplied id and has no persisted message.              *)
C23_SessionResolution ==
    /\ [](result.status \in {"pending", "returned"} => result.session_id = session_id)
    /\ [][turn' = turn + 1 =>
            IF req'.session_id # "" /\ req'.session_id \in PersistedSessions
            THEN session_id' = req'.session_id
            ELSE /\ session_id' # req'.session_id
                 /\ session_id' \notin PersistedSessions
                 /\ session_id' # ""]_vars

(* the second turn supplied the id the first turn had returned without     *)
(* persisting anything, and got a new one                                  *)
C23_Witness ==
    /\ turn = 2 /\ result.status = "returned"
    /\ req.session_id # "" /\ result.session_id # req.session_id

(* C24: committed conversation messages are never deleted or changed: in   *)
(* every step, of successful and of failed turns, the committed log before *)
(* the step is a prefix of the committed log after it.                     *)
C24_AppendOnly ==
    [][/\ Len(log) <= Len(log')
       /\ \A k \in DOMAIN log : log'[k] = log[k]]_vars

(* a second turn failed and was logged on top of the first turn's rows *)
C24_Witness ==
    /\ turn = 2 /\ failed /\ result.status = "returned"
    /\ Len(log) >= 3
    /\ log[1].content = UserText(1)

(* the transcription that was classified and the verdict on it *)
Classified == pending # <<>> /\ pending[1].name = "is_hallucination" /\ messages # <<>>
Transcript == pending[1].args.text
Verdict == messages[1]

(* C25: is_hallucination(s) is true for every s in the exact-match         *)
(* denylist, for every s that contains an entry of the substring denylist  *)
(* and for every s of at most 3 characters after trimming; it is false for *)
(* a coherent sentence unrelated to the denylists, such as a caller's      *)
(* request for a table or a caller stating their name.                     *)
C25_HallucinationFilter ==
    Classified =>
        /\ Transcript \in HALLUCINATION_EXACT => Verdict
        /\ (\E sub \in HALLUCINATION_SUBSTRINGS : Contains(Transcript, sub)) => Verdict
        /\ Len(strip(Transcript)) <= 3 => Verdict
        /\ Transcript \in CallerSentences => ~Verdict

(* the positions inside a specialist loop *)
InLoop(p) == p \in {"llm", "dispatch"}

(* C26: a public turn makes one router call, before every specialist call *)
(* and every dispatch; at most one specialist loop runs in a turn, and     *)
(* when it returns the turn goes on to the reply and ends, without         *)
(* another router call.  The router position is entered only from the      *)
(* graph's start and left by its one call; a loop is entered only from the *)
(* router's decision (internal: from the start), with next_agent naming    *)
(* it, and left only towards the end of the turn.                          *)
C26_OneRouterCall ==
    /\ [][/\ (pc' = "supervisor" /\ turn' = turn) => (pc = "build" /\ flow = "public")
          /\ pc = "supervisor" => pc' \in {"enter", "extract", "persist"}
          /\ (pc' = "enter" /\ flow = "public") => pc = "supervisor"
          /\ pc = "enter" => pc' = "llm"
          /\ InLoop(pc') => (pc = "enter" \/ InLoop(pc))
          /\ InLoop(pc) => (InLoop(pc') \/ pc' \in {"extract", "persist", "idle"})
          /\ pc \in {"extract", "persist"} => pc' \in {"persist", "idle"}
          /\ (node # "none" /\ node' # node) => pc' = "idle"]_vars
    /\ []((flow = "public" /\ (pc = "enter" \/ InLoop(pc))) =>
             /\ node \in {"reservation", "information"}
             /\ next_agent = node)

(* a public turn returned after the router sent it to a loop that          *)
(* dispatched a tool                                                       *)
C26_Witness ==
    /\ turn = 1 /\ flow = "public" /\ ~failed
    /\ result.status = "returned"
    /\ result.tools_used # <<>>
    /\ pc = "idle"

(* the conflict check that ran, and the window it was asked about *)
ConflictChecked ==
    pending # <<>> /\ pending[1].name = "check_table_conflict" /\ messages # <<>>
Asked == pending[1].args
AskedDuration ==
    IF Asked.duration_minutes = 0 THEN BackendDefaultDuration ELSE Asked.duration_minutes

(* the windows [start, start + duration) of a stored row and of the        *)
(* request overlap, both counted in minutes from the midnight that starts  *)
(* their common date                                                       *)
TrulyOverlaps(row) ==
    /\ row.start_time < Asked.start_time + AskedDuration
    /\ Asked.start_time < row.start_time + row.duration_minutes

(* C27: check_table_conflict reports a conflict exactly when the new       *)
(* window [start, start + duration) overlaps the window of an active       *)
(* reservation on the same table and date, also when a window ends after   *)
(* midnight; it reports none for windows that do not overlap.              *)
C27_ConflictExact ==
    ConflictChecked =>
        ((messages[1] # None) <=>
            \E k \in DOMAIN res :
                /\ res[k].company_id = "c1"
                /\ res[k].table_id = Asked.table_id
                /\ res[k].date = Asked.date
                /\ res[k].status \in ActiveStatuses
                /\ TrulyOverlaps(res[k]))

(* the two requests ask for overlapping windows on one date, and one      *)
(* table only seats each party                                             *)
RaceForOneTable ==
    /\ workers # <<>>
    /\ workers["s1"].args.date = workers["s2"].args.date
    /\ workers["s1"].args.time < workers["s2"].args.time + DefaultDuration
    /\ workers["s2"].args.time < workers["s1"].args.time + DefaultDuration
    /\ \A w \in Sessions : Len(EligibleTables("c1", workers[w].args.party)) = 1

(* C28: of two concurrent create_reservation calls for overlapping windows *)
(* with one eligible table, at most one succeeds, under every interleaving *)
(* of their conflict checks, inserts and commits.                          *)
C28_RaceAtMostOne ==
    RaceForOneTable =>
        ~(\A w \in Sessions : workers[w].text = TXT_CONFIRMED)

(* C29: the reply of a turn is a message produced during that turn, never *)
(* the text of an assistant message replayed from an earlier turn; in both *)
(* flows, also when the final completion has an empty text.                *)
C29_ReplyFromThisTurn ==
    (pc = "persist" /\ result.status = "pending") =>
        \A k \in DOMAIN history :
            history[k].role = "ai" => result.response # history[k].content

(* C30: every session id of the persisted log belongs to one tenant: a     *)
(* tenant that supplies another tenant's session id gets a new id, and no  *)
(* row is ever added under the other tenant's id.                          *)
C30_SessionsTenantScoped ==
    /\ \A j, k \in DOMAIN log :
          log[j].session_id = log[k].session_id => log[j].company_id = log[k].company_id
    /\ \A k \in DOMAIN log :
          (pc # "idle" /\ log[k].session_id = session_id) =>
              log[k].company_id = req.company_id

====
